---- MODULE Spec2Model ----
(***************************************************************************)
(* Model of api/chat.js: the /api/chat serverless handler that relays a    *)
(* message to the Coze v3 chat API (create chat, poll retrieve, list       *)
(* messages) and answers with the assistant's last answer.                 *)
(*                                                                         *)
(* JavaScript values are records [t, s]: t is the value's type tag and s   *)
(* the text of the value (the text String(v) gives for it).                *)
(***************************************************************************)
EXTENDS Integers, Sequences, FiniteSets

\* ---------------------------------------------------------------- bounds
\* longest message list the upstream returns
MaxMsgs == 3

\* ------------------------------------------------------ program constants
\* poll ceiling of the while loop
MaxAttempts == 30

\* ------------------------------------------------------------- JS values
Undef == [t |-> "undefined", s |-> ""]
Null == [t |-> "null", s |-> ""]
Str(x) == [t |-> "string", s |-> x]
Num(x) == [t |-> "number", s |-> x]
Bool(x) == [t |-> "boolean", s |-> x]
EmptyArray == [t |-> "array", s |-> ""]
EmptyObject == [t |-> "object", s |-> "[object Object]"]

\* JS ToBoolean, as applied by `!v` and `a || b`
Truthy(v) ==
    CASE v.t = "undefined" -> FALSE
      [] v.t = "null" -> FALSE
      [] v.t = "string" -> v.s # ""
      [] v.t = "number" -> v.s \notin {"0", "-0", "NaN"}
      [] v.t = "boolean" -> v.s = "true"
      [] OTHER -> TRUE

\* JS `a === b` against a primitive literal b
StrictEq(a, b) == a.t = b.t /\ a.s = b.s

\* JS `a || b`
OrElse(a, b) == IF Truthy(a) THEN a ELSE b

\* JS String(v), as applied by a template literal `${v}`
JsString(v) ==
    CASE v.t = "undefined" -> "undefined"
      [] v.t = "null" -> "null"
      [] OTHER -> v.s

\* ------------------------------------------------------ requests, config
Reqs == {1, 2}

Methods == {Str("POST"), Str("GET"), Str("PUT"), Str("post")}

\* values a body's `message` field can hold
MessageVals ==
    {Undef, Null, Str(""), Str("hi"), Num("0"), Num("5"),
     Bool("false"), Bool("true"), EmptyArray}

\* req.body: absent, or an object whose message field is v (Undef: no field)
Bodies ==
    {[t |-> "undefined", message |-> Undef]}
      \cup {[t |-> "object", message |-> v] : v \in MessageVals}

\* process.env: each variable is unset, empty or set
Envs ==
    [COZE_API_TOKEN : {Undef, Str(""), Str("tok")},
     COZE_BOT_ID : {Undef, Str(""), Str("bot")}]

\* --------------------------------------------------- upstream's answers
ChatIds == {Str("chat1"), Str("chat2")}
ConvIds == {Str("conv1")}
Statuses == {Str("in_progress"), Str("completed"), Str("failed"), Undef}
Codes == {Num("0"), Num("4000"), Str("0"), Undef}
Msgs == {Undef, Str(""), Str("upstream says no")}

NoFields == [t |-> "undefined", id |-> Undef, conversation_id |-> Undef,
             status |-> Undef, items |-> <<>>]

\* the `data` member of a create / retrieve answer
ChatObjects ==
    {[t |-> "object", id |-> i, conversation_id |-> c, status |-> st,
      items |-> <<>>] : i \in ChatIds, c \in ConvIds, st \in Statuses}

Messages ==
    {[role |-> Str("assistant"), type |-> Str("answer"), content |-> Str("A")],
     [role |-> Str("assistant"), type |-> Str("answer"), content |-> Str("B")],
     [role |-> Str("user"), type |-> Str("answer"), content |-> Str("U")],
     [role |-> Str("assistant"), type |-> Str("follow_up"), content |-> Str("F")]}

RECURSIVE SeqsUpTo(_, _)
SeqsUpTo(S, n) ==
    IF n = 0 THEN {<<>>}
    ELSE LET shorter == SeqsUpTo(S, n - 1)
         IN shorter \cup {Append(q, m) : q \in {p \in shorter : Len(p) = n - 1},
                                          m \in S}

\* the `data` member of a message/list answer
ListArrays ==
    {[NoFields EXCEPT !.t = "array", !.items = q] : q \in SeqsUpTo(Messages, MaxMsgs)}

\* a parsed answer that has not been received
NoData == [t |-> "undefined", code |-> Undef, msg |-> Undef, data |-> NoFields]

\* the JSON text `null`
NullData == [NoData EXCEPT !.t = "null"]

\* answers with a code other than the number 0
FailedDatas ==
    {[t |-> "object", code |-> c, msg |-> m, data |-> NoFields] :
        c \in Codes \ {Num("0")}, m \in Msgs}

\* code 0 whose data member is missing or null
HollowDatas ==
    {[t |-> "object", code |-> Num("0"), msg |-> Str(""), data |-> d] :
        d \in {NoFields, [NoFields EXCEPT !.t = "null"]}}

ChatDatas ==
    {NullData} \cup FailedDatas \cup HollowDatas
      \cup {[t |-> "object", code |-> Num("0"), msg |-> Str(""), data |-> d] :
               d \in ChatObjects}

ListDatas ==
    {NullData} \cup FailedDatas \cup HollowDatas
      \cup {[t |-> "object", code |-> Num("0"), msg |-> Str(""),
             data |-> [NoFields EXCEPT !.t = "object"]]}
      \cup {[t |-> "object", code |-> Num("0"), msg |-> Str(""), data |-> d] :
               d \in ListArrays}

\* ------------------------------------------------------------------ state
VARIABLES
    env,             \* process.env
    upstream,        \* which answers the remote service gives in this run
    method,          \* req.method of each request
    body,            \* req.body of each request
    pc,              \* where each invocation of handler stands
    createData,      \* const createData
    pollData,        \* const pollData of the latest loop iteration
    msgData,         \* const msgData
    chatId,          \* const chatId
    conversationId,  \* const conversationId
    status,          \* let status
    attempts,        \* let attempts
    observed,        \* the values assigned to status so far, in order
    httpOk,          \* transport status of the latest fetch response was 2xx
    calls,           \* fetch and setTimeout calls made so far, in order
    response,        \* what res.status(..).json(..) sent
    sent,            \* number of res.json calls
    fault,           \* the exception thrown inside the try block, if any
    log              \* what console.error printed

vars ==
    <<env, upstream, method, body, pc, createData, pollData, msgData, chatId,
      conversationId, status, attempts, observed, httpOk, calls, response, sent, log, fault>>

\* a remote service that answers in the plain ways only: a chat that is
\* running or completed, one list of messages, or one refusal
PlainRefusal ==
    [t |-> "object", code |-> Num("4000"), msg |-> Str("upstream says no"),
     data |-> NoFields]

PlainCreateDatas ==
    {PlainRefusal}
      \cup {[t |-> "object", code |-> Num("0"), msg |-> Str(""),
             data |-> [NoFields EXCEPT !.t = "object", !.id = i,
                                       !.conversation_id = Str("conv1"),
                                       !.status = st]] :
               i \in ChatIds, st \in {Str("in_progress"), Str("completed")}}

PlainPollDatas ==
    {PlainRefusal}
      \cup {[t |-> "object", code |-> Num("0"), msg |-> Str(""),
             data |-> [NoFields EXCEPT !.t = "object", !.id = Str("chat1"),
                                       !.conversation_id = Str("conv1"),
                                       !.status = st]] :
               st \in {Str("in_progress"), Str("completed")}}

PlainListDatas ==
    {PlainRefusal,
     [t |-> "object", code |-> Num("0"), msg |-> Str(""),
      data |-> [NoFields EXCEPT !.t = "array",
                   !.items = <<[role |-> Str("user"), type |-> Str("answer"),
                                content |-> Str("U")],
                               [role |-> Str("assistant"), type |-> Str("answer"),
                                content |-> Str("A")]>>]]}

\* what the awaited calls can resolve with
CreateAnswers == IF upstream = "any" THEN ChatDatas ELSE PlainCreateDatas
PollAnswers == IF upstream = "any" THEN ChatDatas ELSE PlainPollDatas
ListAnswers == IF upstream = "any" THEN ListDatas ELSE PlainListDatas
Transports == IF upstream = "any" THEN BOOLEAN ELSE {TRUE}

NoResponse == [status |-> 0, error |-> Undef, reply |-> Undef]

Call(op, c, v) == [op |-> op, chat_id |-> c, conversation_id |-> v]

\* ------------------------------------------------------- pieces of handler
\* variant of line 9: only GET is turned away
MethodRejectedGetOnly(m) == StrictEq(m, Str("GET"))

\* line 9
MethodRejected(m) == ~StrictEq(m, Str("POST"))

\* line 13: const { message } = req.body || {}
MessageOf(b) == IF b.t = "undefined" THEN Undef ELSE b.message

\* variant of line 14: message === undefined
MessageMissingUndefinedOnly(b) == StrictEq(MessageOf(b), Undef)

\* variant of line 14: message == null
MessageMissingNullish(b) == MessageOf(b).t \in {"undefined", "null"}

\* line 14
MessageMissing(b) == ~Truthy(MessageOf(b))

\* variant of line 20: !apiToken && !botId
ConfigMissingBoth(e) == ~Truthy(e.COZE_API_TOKEN) /\ ~Truthy(e.COZE_BOT_ID)

\* line 20
ConfigMissing(e) == ~Truthy(e.COZE_API_TOKEN) \/ ~Truthy(e.COZE_BOT_ID)

\* variant of lines 48, 67, 86: data.code === 0
CodeFailedInverted(d) == StrictEq(d.code, Num("0"))

\* variant of lines 48, 67, 86: data.code != 0
CodeFailedLoose(d) ==
    ~(d.code.t \in {"number", "string"} /\ d.code.s = "0")

\* lines 48, 67, 86: data.code !== 0
CodeFailed(d) == ~StrictEq(d.code, Num("0"))

\* variant of lines 49, 68, 87: the remote message is dropped
UpstreamErrorDefaultOnly(d, default) == Str(default)

\* variant of lines 49, 68, 87: error: data.msg
UpstreamErrorNoDefault(d, default) == d.msg

\* lines 49, 68, 87: data.msg || '<default>'
UpstreamError(d, default) == OrElse(d.msg, Str(default))

\* variant of line 58: status !== 'completed'
LoopCondUntilCompleted(st, att) ==
    ~StrictEq(st, Str("completed")) /\ att < MaxAttempts

\* variant of line 58: attempts <= 30
LoopCondInclusive(st, att) ==
    StrictEq(st, Str("in_progress")) /\ att <= MaxAttempts

\* line 58
LoopCond(st, att) == StrictEq(st, Str("in_progress")) /\ att < MaxAttempts

\* variant of line 71: the counter is also bumped before the poll
NextAttemptsTwice(att) == att + 2

\* line 71
NextAttempts(att) == att + 1

\* variant of line 74: status === 'in_progress'
NotCompletedInProgressOnly(st) == StrictEq(st, Str("in_progress"))

\* line 74
NotCompleted(st) == ~StrictEq(st, Str("completed"))

\* line 75
IncompleteError(st) ==
    Str("Chat did not complete (status: " \o JsString(st) \o ")")

\* variant of lines 90-92: the type is not tested
IsBotMessageRoleOnly(m) == StrictEq(m.role, Str("assistant"))

\* lines 90-92
IsBotMessage(m) ==
    StrictEq(m.role, Str("assistant")) /\ StrictEq(m.type, Str("answer"))

BotMessages(items) == SelectSeq(items, IsBotMessage)

\* variant of line 93: botMessages[0]
ReplyOfFirst(items) ==
    LET botMessages == BotMessages(items)
    IN IF Len(botMessages) > 0 THEN botMessages[1].content ELSE Str("")

\* line 93
ReplyOf(items) ==
    LET botMessages == BotMessages(items)
    IN IF Len(botMessages) > 0
       THEN botMessages[Len(botMessages)].content
       ELSE Str("")

\* variant of line 98: error: err.message
CatchErrorLeaksFault(f) == Str(f)

\* line 98
CatchError(f) == Str("Internal server error")

\* res.status(code).json({ error }) and return
RespondError(r, code, err) ==
    /\ response' = [response EXCEPT ![r] =
                       [status |-> code, error |-> err, reply |-> Undef]]
    /\ sent' = [sent EXCEPT ![r] = @ + 1]
    /\ pc' = [pc EXCEPT ![r] = "done"]

\* res.status(200).json({ reply }) and return
RespondReply(r, rep) ==
    /\ response' = [response EXCEPT ![r] =
                       [status |-> 200, error |-> Undef, reply |-> rep]]
    /\ sent' = [sent EXCEPT ![r] = @ + 1]
    /\ pc' = [pc EXCEPT ![r] = "done"]

\* lines 96-99: the catch block
Catch(r, f) ==
    /\ fault' = [fault EXCEPT ![r] = f]
    /\ log' = [log EXCEPT ![r] = Append(@, f)]
    /\ RespondError(r, 500, CatchError(f))

\* lines 58-84 from the loop test on: wait again, give up, or list messages
FromLoopTest(r, cid, vid, st, att) ==
    IF LoopCond(st, att)
    THEN /\ calls' = [calls EXCEPT ![r] = Append(@, Call("wait", "", ""))]
         /\ pc' = [pc EXCEPT ![r] = "wait"]
         /\ UNCHANGED <<response, sent, log, fault>>
    ELSE IF NotCompleted(st)
    THEN /\ RespondError(r, 500, IncompleteError(st))
         /\ UNCHANGED <<calls, log, fault>>
    ELSE /\ calls' = [calls EXCEPT ![r] =
                         Append(@, Call("list", JsString(cid), JsString(vid)))]
         /\ pc' = [pc EXCEPT ![r] = "list_fetch"]
         /\ UNCHANGED <<response, sent, log, fault>>

\* ------------------------------------------------------------------- Init
InitWith(active) ==
    /\ env \in Envs
    /\ upstream = "any"
    /\ method \in [Reqs -> Methods]
    /\ body \in [Reqs -> Bodies]
    /\ \A r \in Reqs \ active :
          method[r] = Str("POST") /\ body[r] = [t |-> "undefined", message |-> Undef]
    /\ pc = [r \in Reqs |-> IF r \in active THEN "start" ELSE "idle"]
    /\ createData = [r \in Reqs |-> NoData]
    /\ pollData = [r \in Reqs |-> NoData]
    /\ msgData = [r \in Reqs |-> NoData]
    /\ chatId = [r \in Reqs |-> Undef]
    /\ conversationId = [r \in Reqs |-> Undef]
    /\ status = [r \in Reqs |-> Undef]
    /\ attempts = [r \in Reqs |-> 0]
    /\ httpOk = [r \in Reqs |-> TRUE]
    /\ calls = [r \in Reqs |-> <<>>]
    /\ response = [r \in Reqs |-> NoResponse]
    /\ sent = [r \in Reqs |-> 0]
    /\ log = [r \in Reqs |-> <<>>]
    /\ fault = [r \in Reqs |-> "none"]
    /\ observed = [r \in Reqs |-> <<>>]

\* one request in flight
Init == InitWith({1})

\* two requests in flight at once, against a plainly answering service
InitConc ==
    /\ env \in {[COZE_API_TOKEN |-> Str("tok"), COZE_BOT_ID |-> Str("bot")],
                [COZE_API_TOKEN |-> Undef, COZE_BOT_ID |-> Str("bot")]}
    /\ upstream = "plain"
    /\ method \in [Reqs -> {Str("POST"), Str("GET")}]
    /\ body \in [Reqs -> {[t |-> "object", message |-> Str("hi")],
                          [t |-> "undefined", message |-> Undef]}]
    /\ pc = [r \in Reqs |-> "start"]
    /\ createData = [r \in Reqs |-> NoData]
    /\ pollData = [r \in Reqs |-> NoData]
    /\ msgData = [r \in Reqs |-> NoData]
    /\ chatId = [r \in Reqs |-> Undef]
    /\ conversationId = [r \in Reqs |-> Undef]
    /\ status = [r \in Reqs |-> Undef]
    /\ attempts = [r \in Reqs |-> 0]
    /\ httpOk = [r \in Reqs |-> TRUE]
    /\ calls = [r \in Reqs |-> <<>>]
    /\ response = [r \in Reqs |-> NoResponse]
    /\ sent = [r \in Reqs |-> 0]
    /\ log = [r \in Reqs |-> <<>>]
    /\ fault = [r \in Reqs |-> "none"]
    /\ observed = [r \in Reqs |-> <<>>]

\* ---------------------------------------------------------------- actions
\* lines 9-11
RejectMethod(r) ==
    /\ pc[r] = "start"
    /\ MethodRejected(method[r])
    /\ RespondError(r, 405, Str("Method Not Allowed"))
    /\ UNCHANGED <<env, upstream, method, body, createData, pollData, msgData, chatId,
                   conversationId, status, attempts, observed, httpOk, calls, log, fault>>

\* lines 13-16
RejectMessage(r) ==
    /\ pc[r] = "start"
    /\ ~MethodRejected(method[r])
    /\ MessageMissing(body[r])
    /\ RespondError(r, 400, Str("Missing \"message\" in request body"))
    /\ UNCHANGED <<env, upstream, method, body, createData, pollData, msgData, chatId,
                   conversationId, status, attempts, observed, httpOk, calls, log, fault>>

\* variant of lines 9-22: the configuration is tested first
RejectConfigFirst(r) ==
    /\ pc[r] = "start"
    /\ ConfigMissing(env)
    /\ RespondError(r, 500,
          Str("Coze API token or Bot ID not configured in environment variables."))
    /\ UNCHANGED <<env, upstream, method, body, createData, pollData, msgData,
                   chatId, conversationId, status, attempts, observed, httpOk,
                   calls, log, fault>>

\* lines 18-22
RejectConfig(r) ==
    /\ pc[r] = "start"
    /\ ~MethodRejected(method[r])
    /\ ~MessageMissing(body[r])
    /\ ConfigMissing(env)
    /\ RespondError(r, 500,
          Str("Coze API token or Bot ID not configured in environment variables."))
    /\ UNCHANGED <<env, upstream, method, body, createData, pollData, msgData, chatId,
                   conversationId, status, attempts, observed, httpOk, calls, log, fault>>

\* lines 9-45: all checks pass, fetch(.../v3/chat) is called
StartCreate(r) ==
    /\ pc[r] = "start"
    /\ ~MethodRejected(method[r])
    /\ ~MessageMissing(body[r])
    /\ ~ConfigMissing(env)
    /\ calls' = [calls EXCEPT ![r] = Append(@, Call("create", "", ""))]
    /\ pc' = [pc EXCEPT ![r] = "create_fetch"]
    /\ UNCHANGED <<env, upstream, method, body, createData, pollData, msgData, chatId,
                   conversationId, status, attempts, observed, httpOk, response, sent, log, fault>>

\* a fetch promise rejects: lines 26, 60, 79 throw into the catch block
FetchFails(r) ==
    /\ pc[r] \in {"create_fetch", "poll_fetch", "list_fetch"}
    /\ Catch(r, "network error")
    /\ UNCHANGED <<env, upstream, method, body, createData, pollData, msgData, chatId,
                   conversationId, status, attempts, observed, httpOk, calls>>

\* a fetch promise resolves with any transport status; .json() is called
FetchResolves(r) ==
    /\ pc[r] \in {"create_fetch", "poll_fetch", "list_fetch"}
    /\ \E ok \in Transports : httpOk' = [httpOk EXCEPT ![r] = ok]
    /\ pc' = [pc EXCEPT ![r] =
                 CASE pc[r] = "create_fetch" -> "create_json"
                   [] pc[r] = "poll_fetch" -> "poll_json"
                   [] pc[r] = "list_fetch" -> "list_json"]
    /\ UNCHANGED <<env, upstream, method, body, createData, pollData, msgData, chatId,
                   conversationId, status, attempts, observed, calls, response, sent, log, fault>>

\* the body is not JSON: lines 47, 66, 85 throw into the catch block
JsonFails(r) ==
    /\ pc[r] \in {"create_json", "poll_json", "list_json"}
    /\ Catch(r, "invalid json")
    /\ UNCHANGED <<env, upstream, method, body, createData, pollData, msgData, chatId,
                   conversationId, status, attempts, observed, httpOk, calls>>

\* lines 47-58: the create answer is parsed
CreateJsonResolves(r) ==
    /\ pc[r] = "create_json"
    /\ \E d \in CreateAnswers :
          /\ createData' = [createData EXCEPT ![r] = d]
          /\ IF d.t # "object"
             THEN /\ Catch(r, "type error")
                  /\ UNCHANGED <<chatId, conversationId, status, attempts, observed, calls>>
             ELSE IF CodeFailed(d)
             THEN /\ RespondError(r, 500,
                                  UpstreamError(d, "Failed to start Coze chat"))
                  /\ UNCHANGED <<chatId, conversationId, status, attempts, observed,
                                 calls, log, fault>>
             ELSE IF d.data.t # "object"
             THEN /\ Catch(r, "type error")
                  /\ UNCHANGED <<chatId, conversationId, status, attempts, observed, calls>>
             ELSE /\ chatId' = [chatId EXCEPT ![r] = d.data.id]
                  /\ conversationId' =
                        [conversationId EXCEPT ![r] = d.data.conversation_id]
                  /\ status' = [status EXCEPT ![r] = d.data.status]
                  /\ attempts' = [attempts EXCEPT ![r] = 0]
                  /\ observed' = [observed EXCEPT ![r] = <<d.data.status>>]
                  /\ FromLoopTest(r, d.data.id, d.data.conversation_id,
                                  d.data.status, 0)
    /\ UNCHANGED <<env, upstream, method, body, pollData, msgData, httpOk>>

\* variant of line 61: chat_id=${conversationId}&conversation_id=${chatId}
WaitElapsedSwappedIds(r) ==
    /\ pc[r] = "wait"
    /\ calls' = [calls EXCEPT ![r] =
                    Append(@, Call("poll", JsString(conversationId[r]),
                                   JsString(chatId[r])))]
    /\ pc' = [pc EXCEPT ![r] = "poll_fetch"]
    /\ UNCHANGED <<env, upstream, method, body, createData, pollData, msgData,
                   chatId, conversationId, status, attempts, observed, httpOk,
                   response, sent, log, fault>>

\* variant of lines 52-65: chatId and conversationId kept in module scope,
\* shared by every invocation (here: the slot of request 1)
WaitElapsedSharedIds(r) ==
    /\ pc[r] = "wait"
    /\ calls' = [calls EXCEPT ![r] =
                    Append(@, Call("poll", JsString(chatId[1]),
                                   JsString(conversationId[1])))]
    /\ pc' = [pc EXCEPT ![r] = "poll_fetch"]
    /\ UNCHANGED <<env, upstream, method, body, createData, pollData, msgData,
                   chatId, conversationId, status, attempts, observed, httpOk,
                   response, sent, log, fault>>

\* line 59-65: the timer fires, fetch(.../v3/chat/retrieve?...) is called
WaitElapsed(r) ==
    /\ pc[r] = "wait"
    /\ calls' = [calls EXCEPT ![r] =
                    Append(@, Call("poll", JsString(chatId[r]),
                                   JsString(conversationId[r])))]
    /\ pc' = [pc EXCEPT ![r] = "poll_fetch"]
    /\ UNCHANGED <<env, upstream, method, body, createData, pollData, msgData, chatId,
                   conversationId, status, attempts, observed, httpOk, response, sent, log, fault>>

\* lines 66-72 and the next loop test: the retrieve answer is parsed
PollJsonResolves(r) ==
    /\ pc[r] = "poll_json"
    /\ \E d \in PollAnswers :
          /\ pollData' = [pollData EXCEPT ![r] = d]
          /\ IF d.t # "object"
             THEN /\ Catch(r, "type error")
                  /\ UNCHANGED <<status, attempts, observed, calls>>
             ELSE IF CodeFailed(d)
             THEN /\ RespondError(r, 500,
                                  UpstreamError(d, "Error while polling Coze chat"))
                  /\ UNCHANGED <<status, attempts, observed, calls, log, fault>>
             ELSE IF d.data.t # "object"
             THEN /\ Catch(r, "type error")
                  /\ UNCHANGED <<status, attempts, observed, calls>>
             ELSE /\ status' = [status EXCEPT ![r] = d.data.status]
                  /\ attempts' = [attempts EXCEPT ![r] = NextAttempts(@)]
                  /\ observed' =
                        [observed EXCEPT ![r] = Append(@, d.data.status)]
                  /\ FromLoopTest(r, chatId[r], conversationId[r],
                                  d.data.status, NextAttempts(attempts[r]))
    /\ UNCHANGED <<env, upstream, method, body, createData, msgData, chatId,
                   conversationId, httpOk>>

\* lines 85-95: the message list answer is parsed
ListJsonResolves(r) ==
    /\ pc[r] = "list_json"
    /\ \E d \in ListAnswers :
          /\ msgData' = [msgData EXCEPT ![r] = d]
          /\ IF d.t # "object"
             THEN Catch(r, "type error")
             ELSE IF CodeFailed(d)
             THEN /\ RespondError(r, 500,
                                  UpstreamError(d, "Failed to fetch chat messages"))
                  /\ UNCHANGED <<log, fault>>
             ELSE IF d.data.t # "array"
             THEN Catch(r, "type error")
             ELSE /\ RespondReply(r, ReplyOf(d.data.items))
                  /\ UNCHANGED <<log, fault>>
    /\ UNCHANGED <<env, upstream, method, body, createData, pollData, chatId,
                   conversationId, status, attempts, observed, httpOk, calls>>

Step(r) ==
    \/ RejectMethod(r)
    \/ RejectMessage(r)
    \/ RejectConfig(r)
    \/ StartCreate(r)
    \/ FetchFails(r)
    \/ FetchResolves(r)
    \/ JsonFails(r)
    \/ CreateJsonResolves(r)
    \/ WaitElapsed(r)
    \/ PollJsonResolves(r)
    \/ ListJsonResolves(r)

Next == \E r \in Reqs : Step(r)

Spec == Init /\ [][Next]_vars

SpecConc == InitConc /\ [][Next]_vars

TypeOK ==
    /\ env \in Envs
    /\ \A r \in Reqs :
          /\ pc[r] \in {"idle", "start", "create_fetch", "create_json", "wait",
                        "poll_fetch", "poll_json", "list_fetch", "list_json",
                        "done"}
          /\ attempts[r] \in 0..MaxAttempts
          /\ sent[r] \in 0..1

\* ------------------------------------------------------------- properties
NumCalls(r, op) == Len(SelectSeq(calls[r], LAMBDA c : c.op = op))

ErrorResponse(code, text) == [status |-> code, error |-> Str(text), reply |-> Undef]

InProgress == Str("in_progress")
Completed == Str("completed")

\* C1: a request whose method is not POST, whatever its body and the
\* configuration, makes no outbound call and is answered 405 'Method Not
\* Allowed'.
C1_NonPostIs405 ==
    \A r \in Reqs :
        method[r] # Str("POST") =>
            /\ calls[r] = <<>>
            /\ pc[r] = "done" => response[r] = ErrorResponse(405, "Method Not Allowed")

C1_Witness ==
    \E r \in Reqs :
        /\ pc[r] = "done"
        /\ method[r] = Str("PUT")
        /\ body[r] = [t |-> "object", message |-> Str("hi")]
        /\ env = [COZE_API_TOKEN |-> Str("tok"), COZE_BOT_ID |-> Str("bot")]
        /\ response[r].status = 405

\* C2: a POST request whose body is absent, has no message field or has the
\* empty string as message makes no outbound call and is answered 400
\* 'Missing "message" in request body'.
C2_MissingMessageIs400 ==
    \A r \in Reqs :
        (/\ method[r] = Str("POST")
         /\ \/ body[r].t = "undefined"
            \/ body[r].message = Undef
            \/ body[r].message = Str("")) =>
            /\ calls[r] = <<>>
            /\ pc[r] = "done" =>
                  response[r] = ErrorResponse(400, "Missing \"message\" in request body")

C2_Witness ==
    \E r \in Reqs :
        /\ pc[r] = "done"
        /\ method[r] = Str("POST")
        /\ body[r] = [t |-> "object", message |-> Str("")]
        /\ env = [COZE_API_TOKEN |-> Str("tok"), COZE_BOT_ID |-> Str("bot")]
        /\ response[r].status = 400

\* C3: a POST request with a message, when the API token or the bot id (or
\* both) is not configured, makes no outbound call and is answered 500 with
\* the configuration error.
C3_MissingConfigIs500 ==
    \A r \in Reqs :
        (/\ method[r] = Str("POST")
         /\ body[r].t = "object"
         /\ Truthy(body[r].message)
         /\ \/ env.COZE_API_TOKEN \in {Undef, Str("")}
            \/ env.COZE_BOT_ID \in {Undef, Str("")}) =>
            /\ calls[r] = <<>>
            /\ pc[r] = "done" =>
                  response[r] = ErrorResponse(500,
                      "Coze API token or Bot ID not configured in environment variables.")

C3_Witness ==
    \E r \in Reqs :
        /\ pc[r] = "done"
        /\ method[r] = Str("POST")
        /\ body[r] = [t |-> "object", message |-> Str("hi")]
        /\ env = [COZE_API_TOKEN |-> Str("tok"), COZE_BOT_ID |-> Undef]
        /\ response[r].status = 500

\* C4: when the create answer carries a code other than 0, the request is
\* answered 500 with the remote message, or with 'Failed to start Coze chat'
\* when the remote message is absent or empty, and the create call is the
\* only outbound call made.
C4_CreateFailureIs500 ==
    \A r \in Reqs :
        (createData[r].t = "object" /\ createData[r].code # Num("0")) =>
            /\ pc[r] = "done"
            /\ response[r].status = 500
            /\ response[r].reply = Undef
            /\ response[r].error =
                  IF createData[r].msg \in {Undef, Str("")}
                  THEN Str("Failed to start Coze chat")
                  ELSE createData[r].msg
            /\ calls[r] = <<Call("create", "", "")>>

C4_Witness ==
    \E r \in Reqs :
        /\ createData[r].code = Num("4000")
        /\ createData[r].msg = Str("upstream says no")
        /\ response[r].error = Str("upstream says no")

\* the handler has left the poll loop by its test (not by a return or a throw)
LeadingInProgress(obs) ==
    /\ Len(obs) > 0
    /\ \A i \in 1..(Len(obs) - 1) : obs[i] = InProgress
    /\ obs[Len(obs)] # InProgress

\* calls is the create call followed by k rounds of one wait and one poll
WaitPollRounds(cs, k) ==
    /\ Len(cs) >= 1 + 2 * k
    /\ cs[1].op = "create"
    /\ \A i \in 1..k : cs[2 * i].op = "wait" /\ cs[2 * i + 1].op = "poll"

\* C5: if the first k statuses the handler observes (the create answer's,
\* then those of successful polls) are in_progress and the next one is not,
\* for k from 0 to 30, the handler makes exactly k polls and k waits, each
\* poll right after one wait; for in_progress, in_progress, completed that
\* is 2 polls, 2 waits and then the list call.
C5_PollsMatchStatuses ==
    \A r \in Reqs :
        /\ LeadingInProgress(observed[r]) =>
              LET k == Len(observed[r]) - 1
              IN /\ k \in 0..30
                 /\ NumCalls(r, "poll") = k
                 /\ NumCalls(r, "wait") = k
                 /\ WaitPollRounds(calls[r], k)
        /\ observed[r] = <<InProgress, InProgress, Completed>> =>
              /\ Len(calls[r]) = 6
              /\ calls[r][6].op = "list"

C5_Witness ==
    \E r \in Reqs :
        /\ observed[r] = <<InProgress, InProgress, Completed>>
        /\ pc[r] = "list_fetch"
        /\ NumCalls(r, "poll") = 2

\* C6: when the create answer and 30 successive polls all say in_progress,
\* the handler makes no 31st poll and no list call and answers 500 'Chat did
\* not complete (status: in_progress)'; no request ever polls more than 30
\* times.
C6_StopsAfter30Polls ==
    \A r \in Reqs :
        /\ NumCalls(r, "poll") <= 30
        /\ (Len(observed[r]) = 31 /\ \A i \in 1..31 : observed[r][i] = InProgress) =>
              /\ pc[r] = "done"
              /\ NumCalls(r, "poll") = 30
              /\ NumCalls(r, "list") = 0
              /\ response[r] =
                    ErrorResponse(500, "Chat did not complete (status: in_progress)")

C6_Witness ==
    \E r \in Reqs :
        /\ Len(observed[r]) = 31
        /\ \A i \in 1..31 : observed[r][i] = InProgress
        /\ response[r].status = 500

\* positions of the assistant answers in a message list
AnswerPositions(items) ==
    {i \in 1..Len(items) :
        items[i].role = Str("assistant") /\ items[i].type = Str("answer")}

Highest(S) == CHOOSE i \in S : \A j \in S : j <= i

ListSucceeded(r) ==
    /\ msgData[r].t = "object"
    /\ msgData[r].code = Num("0")
    /\ msgData[r].data.t = "array"

MsgA == [role |-> Str("assistant"), type |-> Str("answer"), content |-> Str("A")]
MsgB == [role |-> Str("assistant"), type |-> Str("answer"), content |-> Str("B")]
MsgU == [role |-> Str("user"), type |-> Str("answer"), content |-> Str("U")]

\* C7: when the list call succeeds and the list holds an assistant answer,
\* the request is answered 200 with the content of the last assistant answer
\* in list order, never with a message of another role or type; for answers
\* A then B and a user message at any position the reply is B.
C7_ReplyIsLastAnswer ==
    \A r \in Reqs :
        ListSucceeded(r) =>
            LET items == msgData[r].data.items
            IN /\ AnswerPositions(items) # {} =>
                     /\ response[r].status = 200
                     /\ response[r].error = Undef
                     /\ response[r].reply = items[Highest(AnswerPositions(items))].content
               /\ items \in {<<MsgU, MsgA, MsgB>>, <<MsgA, MsgU, MsgB>>,
                             <<MsgA, MsgB, MsgU>>} =>
                     response[r].reply = Str("B")

C7_Witness ==
    \E r \in Reqs :
        /\ ListSucceeded(r)
        /\ msgData[r].data.items = <<MsgA, MsgB, MsgU>>
        /\ response[r].status = 200

\* C8: when the list call succeeds and the list holds no assistant answer
\* (the empty list included), the request is answered 200 with the empty
\* string as reply.
C8_NoAnswerIsEmptyReply ==
    \A r \in Reqs :
        (ListSucceeded(r) /\ AnswerPositions(msgData[r].data.items) = {}) =>
            response[r] = [status |-> 200, error |-> Undef, reply |-> Str("")]

C8_Witness ==
    \E r \in Reqs :
        /\ ListSucceeded(r)
        /\ Len(msgData[r].data.items) = 2
        /\ AnswerPositions(msgData[r].data.items) = {}
        /\ response[r].status = 200

\* the text of a status as it appears in an error message
StatusText(st) == IF st = Undef THEN "undefined" ELSE st.s

LastOf(q) == q[Len(q)]

\* C9: if the status held when the poll loop is left (by its test) is not
\* exactly 'completed', whether still in_progress after 30 attempts or any
\* other value, from the create answer or from a poll, the request is
\* answered 500 with an error naming that status and no list call is made;
\* a list call is made and a 200 is sent only when the last observed status
\* is 'completed'.
C9_OnlyCompletedIsListed ==
    \A r \in Reqs :
        /\ (/\ Len(observed[r]) > 0
            /\ status[r] # Completed
            /\ ~(status[r] = InProgress /\ attempts[r] < 30)) =>
              /\ pc[r] = "done"
              /\ response[r] =
                    ErrorResponse(500, "Chat did not complete (status: "
                                         \o StatusText(status[r]) \o ")")
              /\ NumCalls(r, "list") = 0
        /\ (NumCalls(r, "list") > 0 \/ response[r].status = 200) =>
              /\ status[r] = Completed
              /\ Len(observed[r]) > 0
              /\ LastOf(observed[r]) = Completed

C9_Witness ==
    \E r \in Reqs :
        /\ Len(observed[r]) = 3
        /\ status[r] = Str("failed")
        /\ response[r].status = 500

\* an answer that makes the handler's property accesses throw
Malformed(d, shape) ==
    \/ d.t = "null"
    \/ d.t = "object" /\ d.code = Num("0") /\ d.data.t # shape

FaultRaised(r) ==
    \/ fault[r] # "none"
    \/ Malformed(createData[r], "object")
    \/ Malformed(pollData[r], "object")
    \/ Malformed(msgData[r], "array")

\* C10: a fault raised in the create, poll or list step (a failed call, an
\* unparsable body, a malformed payload) is caught: the request is answered
\* 500 with the fixed error 'Internal server error', the same for every
\* fault, the fault is logged, and no outbound call is made from the step
\* that raises it on.
C10_FaultIsInternalError ==
    /\ [](\A r \in Reqs :
            FaultRaised(r) =>
                /\ fault[r] \in {"network error", "invalid json", "type error"}
                /\ pc[r] = "done"
                /\ response[r] = ErrorResponse(500, "Internal server error")
                /\ log[r] = <<fault[r]>>)
    /\ [][\A r \in Reqs : fault'[r] # "none" => calls'[r] = calls[r]]_vars

C10_Witness ==
    \E r \in Reqs :
        /\ Malformed(msgData[r], "array")
        /\ msgData[r].data.t = "object"
        /\ fault[r] = "type error"
        /\ response[r].status = 500

\* the message field is there and is something other than a non-empty string
MessageNotAString(b) ==
    /\ b.t = "object"
    /\ b.message # Undef
    /\ ~(b.message.t = "string" /\ b.message.s # "")

\* JS falsy values a JSON body can hold in a field
FalsyValues == {Null, Str(""), Num("0"), Bool("false")}

\* C11 as stated: a POST request whose message is present but is not a
\* non-empty string (a non-zero number, true, an array) makes no outbound
\* call and is answered 400.
C11_NonStringMessageIs400 ==
    \A r \in Reqs :
        (method[r] = Str("POST") /\ MessageNotAString(body[r])) =>
            /\ calls[r] = <<>>
            /\ pc[r] = "done" => response[r].status = 400

\* C11 amended: a POST request whose message is present but falsy (null, the
\* empty string, 0, false) makes no outbound call and is answered 400; a
\* message that is present and truthy without being a string passes the
\* message check: it is never answered 400, and with the configuration
\* present the create call is made.
C11_FalsyMessageIs400 ==
    \A r \in Reqs :
        (method[r] = Str("POST") /\ MessageNotAString(body[r])) =>
            IF body[r].message \in FalsyValues
            THEN /\ calls[r] = <<>>
                 /\ pc[r] = "done" =>
                       response[r] =
                          ErrorResponse(400, "Missing \"message\" in request body")
            ELSE /\ response[r].status # 400
                 /\ (pc[r] \notin {"idle", "start"}
                     /\ env.COZE_API_TOKEN \notin {Undef, Str("")}
                     /\ env.COZE_BOT_ID \notin {Undef, Str("")}) =>
                       /\ Len(calls[r]) >= 1
                       /\ calls[r][1].op = "create"

C11_Witness ==
    \E r \in Reqs :
        /\ method[r] = Str("POST")
        /\ body[r] = [t |-> "object", message |-> Num("5")]
        /\ NumCalls(r, "create") = 1
        /\ response[r].status = 200

\* the handler is waiting for the body of a response to be parsed
JsonPcs == {"create_json", "poll_json", "list_json"}

\* C12 as stated: once a call has come back with a bad transport status and
\* its body has been dealt with, the request has been answered 500 and has
\* not gone on to a next step.
C12_BadStatusIs500 ==
    \A r \in Reqs :
        (~httpOk[r] /\ pc[r] \notin JsonPcs) =>
            /\ pc[r] = "done"
            /\ response[r].status = 500

\* C12 amended: the transport status of a response is not looked at. After a
\* response with a bad status the request is answered 500, with no further
\* call, when the body cannot be parsed, is malformed or carries a code other
\* than 0; when the body carries code 0 with well-formed data the handler
\* goes on as after a good status: to the next wait, to the list call, to
\* the incomplete-chat 500 or to the 200 reply.
C12_BadStatusFollowsBody ==
    [][\A r \in Reqs :
          (~httpOk[r] /\ pc[r] \in JsonPcs /\ pc'[r] # pc[r]) =>
              LET d == CASE pc[r] = "create_json" -> createData'[r]
                         [] pc[r] = "poll_json" -> pollData'[r]
                         [] pc[r] = "list_json" -> msgData'[r]
              IN IF fault'[r] # "none" \/ d.code # Num("0")
                 THEN /\ pc'[r] = "done"
                      /\ response'[r].status = 500
                      /\ calls'[r] = calls[r]
                 ELSE IF pc[r] = "list_json"
                 THEN /\ pc'[r] = "done"
                      /\ response'[r].status = 200
                 ELSE LET st == d.data.status
                      IN IF st = InProgress /\ attempts'[r] < 30
                         THEN /\ pc'[r] = "wait"
                              /\ NumCalls(r, "wait")' = NumCalls(r, "wait") + 1
                         ELSE IF st = Completed
                         THEN /\ pc'[r] = "list_fetch"
                              /\ NumCalls(r, "list")' = 1
                         ELSE /\ pc'[r] = "done"
                              /\ response'[r].status = 500
                              /\ calls'[r] = calls[r]]_vars

C12_Witness ==
    \E r \in Reqs :
        /\ ~httpOk[r]
        /\ msgData[r].code = Num("0")
        /\ NumCalls(r, "poll") = 1
        /\ response[r].status = 200

\* the outbound calls among calls: everything but the timer waits
Outbound(r) == SelectSeq(calls[r], LAMBDA c : c.op # "wait")

\* C13: in every execution of a request the create call is issued at most
\* once, the list call at most once and the poll call at most 30 times, at
\* most 32 outbound calls in all; a create or list call that failed (code
\* other than 0, or a fault) is the last call of its kind.
C13_NoRetries ==
    \A r \in Reqs :
        /\ NumCalls(r, "create") <= 1
        /\ NumCalls(r, "list") <= 1
        /\ NumCalls(r, "poll") <= 30
        /\ Len(Outbound(r)) <= 32
        /\ (createData[r].t # "undefined" /\ pc[r] = "done"
            /\ response[r].status = 500 /\ Len(observed[r]) = 0) =>
              Outbound(r) = <<Call("create", "", "")>>
        /\ (msgData[r].t # "undefined" /\ response[r].status = 500) =>
              /\ pc[r] = "done"
              /\ NumCalls(r, "list") = 1
              /\ LastOf(calls[r]).op = "list"

C13_Witness ==
    \E r \in Reqs :
        /\ NumCalls(r, "create") = 1
        /\ NumCalls(r, "poll") = 30
        /\ NumCalls(r, "list") = 1
        /\ Len(Outbound(r)) = 32
        /\ msgData[r].code = Num("4000")
        /\ pc[r] = "done"

\* every awaited fetch, body and timer of a request eventually settles, and
\* the continuation then runs
FairSpec == Spec /\ \A r \in Reqs : WF_vars(Step(r))

\* C14: provided every outbound call and every wait returns or fails, every
\* request ends, with exactly one response: never two, never none; the
\* status is 200, 400, 405 or 500 and every response other than 200 carries
\* a non-empty error string.
C14_ExactlyOneResponse ==
    /\ [](\A r \in Reqs :
            /\ sent[r] \in {0, 1}
            /\ sent[r] = 1 <=> pc[r] = "done"
            /\ sent[r] = 0 <=> response[r] = NoResponse
            /\ pc[r] = "done" =>
                  /\ response[r].status \in {200, 400, 405, 500}
                  /\ response[r].status # 200 =>
                        /\ response[r].error.t = "string"
                        /\ response[r].error.s # "")
    /\ \A r \in Reqs : pc[r] = "start" ~> (pc[r] = "done" /\ sent[r] = 1)

C14_Witness ==
    \E r \in Reqs :
        /\ pc[r] = "done"
        /\ sent[r] = 1
        /\ NumCalls(r, "poll") = 30
        /\ response[r].status = 200

\* everything one request owns
Local(r) ==
    <<method[r], body[r], pc[r], createData[r], pollData[r], msgData[r],
      chatId[r], conversationId[r], status[r], attempts[r], observed[r],
      httpOk[r], calls[r], response[r], sent[r], fault[r], log[r]>>

\* the remote message of an answer, or the default
MsgOr(d, default) == IF d.msg \in {Undef, Str("")} THEN Str(default) ELSE d.msg

\* the response a request gets when it runs alone with the inputs and the
\* answers it has received
AloneResponse(r) ==
    IF method[r] # Str("POST")
    THEN ErrorResponse(405, "Method Not Allowed")
    ELSE IF body[r].t = "undefined" \/ ~Truthy(body[r].message)
    THEN ErrorResponse(400, "Missing \"message\" in request body")
    ELSE IF ~Truthy(env.COZE_API_TOKEN) \/ ~Truthy(env.COZE_BOT_ID)
    THEN ErrorResponse(500,
            "Coze API token or Bot ID not configured in environment variables.")
    ELSE IF fault[r] # "none"
    THEN ErrorResponse(500, "Internal server error")
    ELSE IF createData[r].code # Num("0")
    THEN [ErrorResponse(500, "") EXCEPT
             !.error = MsgOr(createData[r], "Failed to start Coze chat")]
    ELSE IF pollData[r].t = "object" /\ pollData[r].code # Num("0")
    THEN [ErrorResponse(500, "") EXCEPT
             !.error = MsgOr(pollData[r], "Error while polling Coze chat")]
    ELSE IF LastOf(observed[r]) # Completed
    THEN ErrorResponse(500, "Chat did not complete (status: "
                              \o StatusText(LastOf(observed[r])) \o ")")
    ELSE IF msgData[r].code # Num("0")
    THEN [ErrorResponse(500, "") EXCEPT
             !.error = MsgOr(msgData[r], "Failed to fetch chat messages")]
    ELSE LET items == msgData[r].data.items
         IN [status |-> 200, error |-> Undef,
             reply |-> IF AnswerPositions(items) = {} THEN Str("")
                       ELSE items[Highest(AnswerPositions(items))].content]

\* the locals and the calls of a request follow from its own answers
AloneState(r) ==
    /\ IF Len(observed[r]) = 0
       THEN /\ chatId[r] = Undef
            /\ conversationId[r] = Undef
            /\ status[r] = Undef
            /\ attempts[r] = 0
            /\ Len(calls[r]) <= 1
       ELSE /\ chatId[r] = createData[r].data.id
            /\ conversationId[r] = createData[r].data.conversation_id
            /\ observed[r][1] = createData[r].data.status
            /\ status[r] = LastOf(observed[r])
            /\ attempts[r] = Len(observed[r]) - 1
            /\ NumCalls(r, "poll") \in {attempts[r], attempts[r] + 1}
            /\ WaitPollRounds(calls[r], NumCalls(r, "poll"))
    /\ \A i \in 1..Len(calls[r]) :
          calls[r][i].op \in {"poll", "list"} =>
              /\ calls[r][i].chat_id = createData[r].data.id.s
              /\ calls[r][i].conversation_id = createData[r].data.conversation_id.s
    /\ pc[r] = "done" => response[r] = AloneResponse(r)

\* C15: when two requests are handled at once and their steps interleave at
\* the awaited calls and waits, every step touches the state of one request
\* only, and each request's counter, status, identifiers, calls and response
\* are those it gets alone from the same answers.
C15_RequestsAreIndependent ==
    /\ [](\A r \in Reqs : AloneState(r))
    /\ [][\E r \in Reqs : \A q \in Reqs \ {r} : Local(q)' = Local(q)]_vars

C15_Witness ==
    /\ pc[1] = "done" /\ pc[2] = "done"
    /\ chatId[1] = Str("chat1") /\ chatId[2] = Str("chat2")
    /\ attempts[1] = 2 /\ attempts[2] = 30
    /\ response[1].status = 200
    /\ response[2].status = 500

\* an answer that was parsed and carries anything but the number 0 as code
Refused(d) == d.t = "object" /\ d.code # Num("0")

\* C16: a poll answer with a code other than 0 ends the request at once: it
\* is answered 500 with the remote message or 'Error while polling Coze
\* chat', and that poll stays the last call, with no wait or list after it,
\* however many attempts remain; a list answer with a code other than 0 is
\* answered 500 with the remote message or 'Failed to fetch chat messages',
\* never 200.
C16_PollOrListFailureIs500 ==
    \A r \in Reqs :
        /\ Refused(pollData[r]) =>
              /\ pc[r] = "done"
              /\ response[r].status = 500
              /\ response[r].reply = Undef
              /\ response[r].error =
                    MsgOr(pollData[r], "Error while polling Coze chat")
              /\ LastOf(calls[r]).op = "poll"
              /\ NumCalls(r, "list") = 0
              /\ NumCalls(r, "wait") = NumCalls(r, "poll")
        /\ Refused(msgData[r]) =>
              /\ pc[r] = "done"
              /\ response[r].status = 500
              /\ response[r].reply = Undef
              /\ response[r].error =
                    MsgOr(msgData[r], "Failed to fetch chat messages")

C16_Witness ==
    \E r \in Reqs :
        /\ Refused(pollData[r])
        /\ pollData[r].msg = Undef
        /\ NumCalls(r, "poll") = 3
        /\ response[r].error = Str("Error while polling Coze chat")

\* C17: the calls of a request come in the order create, polls, list.
\* Nothing follows the create call unless it returned code 0; every poll
\* comes right after one wait and every wait right before one poll (the
\* wait still pending excepted), so no wait precedes the create call or the
\* list call or follows the last poll; the list call is the last call and
\* is made once every poll has returned; every poll and list call carries
\* the chat id and the conversation id of the request's create answer.
C17_CreateThenPollsThenList ==
    \A r \in Reqs :
        LET cs == calls[r]
            n == Len(cs)
        IN /\ n > 0 => cs[1].op = "create"
           /\ n > 1 => createData[r].t = "object" /\ createData[r].code = Num("0")
           /\ \A i \in 2..n :
                 /\ cs[i].op \in {"wait", "poll", "list"}
                 /\ cs[i].op = "poll" => cs[i - 1].op = "wait"
                 /\ cs[i].op = "wait" =>
                       /\ cs[i - 1].op \in {"create", "poll"}
                       /\ IF i = n THEN pc[r] = "wait" ELSE cs[i + 1].op = "poll"
                 /\ cs[i].op = "list" =>
                       /\ i = n
                       /\ cs[i - 1].op \in {"create", "poll"}
                       /\ NumCalls(r, "poll") = Len(observed[r]) - 1
                 /\ cs[i].op \in {"poll", "list"} =>
                       /\ cs[i].chat_id = createData[r].data.id.s
                       /\ cs[i].conversation_id =
                             createData[r].data.conversation_id.s

C17_Witness ==
    \E r \in Reqs :
        /\ Len(calls[r]) = 6
        /\ calls[r][3] = Call("poll", "chat2", "conv1")
        /\ calls[r][6] = Call("list", "chat2", "conv1")
        /\ createData[r].data.id = Str("chat2")

\* the request has entered the poll loop's test and is past the loop
LoopLeft(r) ==
    /\ Len(observed[r]) > 0
    /\ pc[r] \in {"list_fetch", "list_json", "done"}

\* the loop was left from inside a turn: by the return of line 68 or a throw
LeftMidTurn(r) ==
    /\ LastOf(calls[r]).op = "poll"
    /\ Refused(pollData[r]) \/ fault[r] # "none"

\* C18 as stated: wherever the loop is left, the attempt counter equals the
\* number of poll calls issued so far.
C18_AttemptsCountPolls ==
    \A r \in Reqs : LoopLeft(r) => attempts[r] = NumCalls(r, "poll")

\* C18 amended: a turn of the loop increments the attempt counter only when
\* its poll returned code 0 with well-formed data. When the loop is left by
\* its test the counter equals the number of poll calls issued; when it is
\* left by the abort on a poll code other than 0 or by a fault during the
\* poll, the counter is one less: the turn that was cut short is not counted.
C18_AttemptsCountGoodPolls ==
    \A r \in Reqs :
        LoopLeft(r) =>
            /\ attempts[r] = Len(observed[r]) - 1
            /\ IF LeftMidTurn(r)
               THEN attempts[r] = NumCalls(r, "poll") - 1
               ELSE attempts[r] = NumCalls(r, "poll")

C18_Witness ==
    \E r \in Reqs :
        /\ LoopLeft(r)
        /\ Refused(pollData[r])
        /\ NumCalls(r, "poll") = 3
        /\ attempts[r] = 2

ConfigAbsent ==
    \/ env.COZE_API_TOKEN \in {Undef, Str("")}
    \/ env.COZE_BOT_ID \in {Undef, Str("")}

MessageAbsent(b) == b.t = "undefined" \/ b.message \in {Undef} \cup FalsyValues

ConfigErrorResponse ==
    ErrorResponse(500,
        "Coze API token or Bot ID not configured in environment variables.")

\* C19: the checks run in the order method, message, configuration and the
\* first that fails decides the response: a request that is not POST gets
\* 405 even with a missing message and no configuration, a POST request with
\* a missing message gets 400 even with no configuration, and the
\* configuration 500 goes only to a POST request with a message.
C19_ChecksInOrder ==
    \A r \in Reqs :
        pc[r] = "done" =>
            /\ method[r] # Str("POST") => response[r].status = 405
            /\ (method[r] = Str("POST") /\ MessageAbsent(body[r])) =>
                  response[r].status = 400
            /\ (method[r] = Str("POST") /\ ~MessageAbsent(body[r]) /\ ConfigAbsent) =>
                  response[r] = ConfigErrorResponse
            /\ response[r] = ConfigErrorResponse =>
                  /\ method[r] = Str("POST")
                  /\ ~MessageAbsent(body[r])
                  /\ ConfigAbsent

C19_Witness ==
    \E r \in Reqs :
        /\ pc[r] = "done"
        /\ method[r] = Str("POST")
        /\ body[r] = [t |-> "undefined", message |-> Undef]
        /\ env = [COZE_API_TOKEN |-> Undef, COZE_BOT_ID |-> Undef]
        /\ response[r].status = 400

====
